---- MODULE Spec2Model ----
(***************************************************************************)
(* MMM-Birthday: the celebration lifecycle controller (MMM-Birthday.js,    *)
(* version 1.3.0, lines 12-336) and the two emitters of fireworks.js       *)
(* (class Fireworks, singleton Confetti), as one state machine.            *)
(*                                                                         *)
(* Time is in milliseconds, as in the source.  The event loop reads the    *)
(* clock every granule ms (1 s in a run with a responsive event loop, 30 s *)
(* in a run with a throttled one): a timer set for now + delay runs at the *)
(* first clock reading >= its due time (a browser timer never runs early   *)
(* and may run late), timers that are due run in the order of their due    *)
(* times and, when these are equal, in the order they were set, and the    *)
(* clock does not advance while a timer is due.  The host                  *)
(* hooks, the frame callback and the timers are the only entry points;     *)
(* each runs to completion (single-threaded event loop).                   *)
(***************************************************************************)
EXTENDS Integers, Sequences, FiniteSets

VARIABLES
    started,          \* start() has run scheduleNextCheck
    config,           \* this.config: birthdays, fireworkDuration, confettiDuration
    celebrating,      \* this.celebrating
    _wasCelebrating,  \* this._wasCelebrating
    fireworks,        \* this.fireworks: "null" or "Fireworks"
    endTime,          \* Fireworks.endTime
    elements,         \* the .rocket and .spark elements attached to the document
    particles,        \* Confetti: particles
    isAnimating,      \* Confetti: isAnimating
    animationFrame,   \* Confetti: animationFrame (0 = undefined)
    frames,           \* animation-frame requests that are pending
    canvas,           \* Confetti: the canvas is attached to document.body
    wrapper,          \* the .birthday-module element: exists, display, message
    filter,           \* style.filter of the other .module elements
    timers,           \* pending setTimeout and setInterval callbacks, in the order they run
    now,              \* Date.now()
    granule,          \* the period at which the event loop reads the clock
    last,             \* the entry point that ran last, with what it did
    session           \* the celebration begun last: when, for whom, what came after

vars == <<started, config, celebrating, _wasCelebrating, fireworks, endTime, elements,
          particles, isAnimating, animationFrame, frames, canvas, wrapper, filter,
          timers, now, granule, last, session>>

-----------------------------------------------------------------------------
(* Bounds of the model *)

MaxTicks == 2
MaxTimers == 12
MaxBursts == 2
RandomSteps == 20

(* Program constants *)

Infinity == -1
INFINITE == -2
minInterval == 200
explosionDelay == 800
rocketRemoval == 1000
sparkRemoval == 2000
checkInterval == 60000
firstBurstDelay == 1000
burstDelayBase == 2000
burstDelaySpan == 6000
particleCount == 15

Undefined == "#undefined"
Modules == {"clock", "calendar"}
Dimmed == "brightness(30%)"

\* new Date(), as its getMonth(), getDate(), getHours() and getMinutes() give
\* it: the clock of the model stays within this minute-and-a-half of May 17
Today == [month |-> 4, date |-> 17, hours |-> 9, minutes |-> 30]

\* a string is the sequence of its characters
Digits == <<"0", "1", "2", "3", "4", "5", "6", "7", "8", "9">>

\* Number.prototype.toString(), for the numbers 0..99
toString(n) ==
    IF n < 10 THEN <<Digits[n + 1]>> ELSE <<Digits[(n \div 10) + 1], Digits[(n % 10) + 1]>>

\* String.prototype.padStart(targetLength, padString), padString one character
RECURSIVE padStart(_, _, _)
padStart(str, targetLength, padString) ==
    IF Len(str) >= targetLength THEN str
    ELSE padStart(<<padString>> \o str, targetLength, padString)

\* checkBirthdays: currentDate
currentDate ==
    padStart(toString(Today.month + 1), 2, "0") \o <<"-">>
        \o padStart(toString(Today.date), 2, "0")

\* this.defaultTranslations.MESSAGES
defaultTranslations ==
    << <<"Happy Birthday, ", "{name}", "!">>,
       <<"Best wishes on your special day, ", "{name}", "!">>,
       <<"Have a fantastic birthday, ", "{name}", "!">> >>

\* the values config.birthdays takes in the model: no birthday; birthdays of
\* the format MM-DD, two of them today; a birthday of the format MM-DD HH:mm,
\* today at 08:00; and, not an array, a single birthday object (its fields
\* under items), today
BirthdayConfigs ==
    { [isArray |-> TRUE, items |-> <<>>],
      [isArray |-> TRUE,
       items |-> << [name |-> "Carl", date |-> <<"1", "2", "-", "2", "5">>],
                    [name |-> "Anna", date |-> <<"0", "5", "-", "1", "7">>],
                    [name |-> "Bob", date |-> <<"0", "5", "-", "1", "7">>] >>],
      [isArray |-> TRUE,
       items |-> << [name |-> "Dora",
                     date |-> <<"0", "5", "-", "1", "7", " ", "0", "8", ":", "0", "0">>] >>],
      [isArray |-> FALSE,
       items |-> << [name |-> "Erik", date |-> <<"0", "5", "-", "1", "7">>] >>] }

\* the values config.fireworkDuration and config.confettiDuration take
DurationConfigs == {INFINITE, 2000}

\* the first clock reading, and the periods at which the event loop reads it
Epoch == 1000 * 1000
Granules == {1000, 30000}

\* Math.random() * (1000 - 200) + 200 lies in [200, 1000):
\* whatever it is, the timer is due before the next clock reading and before
\* every timer set later in the same callback's second
LaunchDelays == {minInterval}
\* the number of animate() calls a particle of a burst stays in the set for:
\* more than one, as Particle.update() returns true for a particle just
\* constructed (it has moved up from 20 px above the bottom edge at full speed)
Lifetimes == {2, 3}
\* 2000 + Math.random() * 6000 lies in [2000, 8000)
BurstDelays == {burstDelayBase, burstDelayBase + burstDelaySpan - 1}

-----------------------------------------------------------------------------
(* The state as one record, so that a handler is a function on states *)

Cur ==
    [celebrating |-> celebrating, _wasCelebrating |-> _wasCelebrating,
     fireworks |-> fireworks, endTime |-> endTime, elements |-> elements,
     particles |-> particles, isAnimating |-> isAnimating,
     animationFrame |-> animationFrame, frames |-> frames, canvas |-> canvas,
     wrapper |-> wrapper, filter |-> filter, timers |-> timers,
     launched |-> 0, bursts |-> 0, began |-> 0, armed |-> 0, since |-> 0,
     celebrant |-> Undefined]

\* the fields of the program (the timer queue apart)
Fields == {"celebrating", "_wasCelebrating", "fireworks", "endTime", "elements",
           "particles", "isAnimating", "animationFrame", "frames", "canvas",
           "wrapper", "filter"}

Apply(s) ==
    /\ celebrating' = s.celebrating
    /\ _wasCelebrating' = s._wasCelebrating
    /\ fireworks' = s.fireworks
    /\ endTime' = s.endTime
    /\ elements' = s.elements
    /\ particles' = s.particles
    /\ isAnimating' = s.isAnimating
    /\ animationFrame' = s.animationFrame
    /\ frames' = s.frames
    /\ canvas' = s.canvas
    /\ wrapper' = s.wrapper
    /\ filter' = s.filter
    /\ timers' = s.timers

\* what the entry point that just ran did: the rockets it launched, the bursts
\* it fired, the celebrations it began, the chain callbacks it set, the time of
\* the Fireworks.start whose launchNext closure it ran, the flags it found,
\* the fields it changed and whether it left the pending timers as they were
Did(op, s) ==
    [op |-> op, launched |-> s.launched, bursts |-> s.bursts, began |-> s.began,
     armed |-> s.armed, since |-> s.since,
     pre |-> [celebrating |-> celebrating, _wasCelebrating |-> _wasCelebrating],
     touched |-> {f \in Fields : s[f] # Cur[f]},
     kept |-> s.timers = timers]

\* the celebration begun last: at is when celebrateBirthday ran, name is the
\* name the birthday check passed, torn says that stop or suspend has torn the
\* emitters down since, undisturbed that no suspend has intervened, alone that
\* no stop timer of an earlier celebration was pending when it began, nth the
\* number of celebrations the birthday checks have begun so far (all on the
\* one calendar date the model's clock stays in), hidden that the host has
\* called suspend and not called resume since
After(op, s) ==
    LET hidden == IF op = "suspend" THEN TRUE
                  ELSE IF op = "resume" THEN FALSE
                  ELSE session.hidden
    IN  IF s.began > 0
        THEN [at |-> now, name |-> IF op = "check" THEN s.celebrant ELSE session.name,
              torn |-> FALSE, undisturbed |-> TRUE,
              alone |-> \A i \in DOMAIN timers : timers[i].kind # "stop",
              nth |-> IF op = "check" THEN session.nth + 1 ELSE session.nth,
              hidden |-> hidden]
        ELSE IF op = "suspend" /\ celebrating
        THEN [session EXCEPT !.torn = TRUE, !.undisturbed = FALSE, !.hidden = hidden]
        ELSE IF op = "stop"
        THEN [session EXCEPT !.torn = TRUE]
        ELSE [session EXCEPT !.hidden = hidden]

Run(op, s) == Apply(s) /\ last' = Did(op, s) /\ session' = After(op, s)

Timer(kind, due, chain, ref, end) ==
    [kind |-> kind, due |-> due, chain |-> chain, ref |-> ref, end |-> end]

\* setTimeout: the timer queue is kept in the order the timers run, by due time
\* and, among equal due times, in the order they were set
Insert(q, t) ==
    LET k == Cardinality({i \in DOMAIN q : q[i].due <= t.due})
    IN  SubSeq(q, 1, k) \o <<t>> \o SubSeq(q, k + 1, Len(q))

\* Date.now() < e
Before(t, e) == IF e = Infinity THEN TRUE ELSE t < e

\* the element a rocket (or the group of sparks of its explosion) is
Element(cls, chain, ref) == [cls |-> cls, chain |-> chain, ref |-> ref]

\* the names of the closures that timers or elements still refer to; a call of
\* celebrateBirthday creates closures under a name not in use
InUse(s) == {s.timers[i].chain : i \in DOMAIN s.timers} \cup {e.chain : e \in s.elements}
\* a call of celebrateBirthday sets up to five timers
CanStart == Len(timers) + 5 <= MaxTimers
NewChain(s) == CHOOSE c \in 1..(Cardinality(InUse(s)) + 1) :
                   c \notin InUse(s) /\ \A d \in 1..(c - 1) : d \in InUse(s)

-----------------------------------------------------------------------------
(* class Fireworks *)

\* Fireworks.launch: one rocket, its explosion timer and its removal timer
launch(s, chain) ==
    [s EXCEPT !.elements = @ \cup {Element("rocket", chain, now)},
              !.timers = Insert(Insert(@, Timer("explode", now + explosionDelay, chain, now, 0)),
                                Timer("removeRocket", now + rocketRemoval, chain, now, 0)),
              !.launched = @ + 1]

\* the launchNext closure of the Fireworks.start that ran at time since
launchNext(s, chain, since, delay) ==
    LET s0 == [s EXCEPT !.since = since]
    IN  IF Before(now, s0.endTime)
        THEN LET s1 == launch(s0, chain)
             IN  [s1 EXCEPT !.timers =
                                Insert(@, Timer("launchNext", now + delay, chain, since, 0)),
                            !.armed = @ + 1]
        ELSE s0

\* Fireworks.start(duration)
FireworksStart(s, duration, chain, delay) ==
    launchNext([s EXCEPT !.endTime = IF duration = INFINITE THEN Infinity
                                     ELSE now + duration],
               chain, now, delay)

\* Fireworks.cleanup removing the confetti canvas with the rockets and sparks
FireworksCleanupAll(s) ==
    [s EXCEPT !.endTime = 0, !.elements = {}, !.canvas = FALSE]

\* Fireworks.cleanup
FireworksCleanup(s) ==
    [s EXCEPT !.endTime = 0, !.elements = {}]

\* the 800 ms callback of launch: createExplosion, then rocket.remove()
explode(s, t) ==
    [s EXCEPT !.elements = (@ \cup {Element("spark", t.chain, t.ref)})
                               \ {Element("rocket", t.chain, t.ref)},
              !.timers = Insert(@, Timer("removeSparks", now + sparkRemoval, t.chain, t.ref, 0))]

\* the 1000 ms callback of launch
removeRocket(s, t) ==
    [s EXCEPT !.elements = @ \ {Element("rocket", t.chain, t.ref)}]

\* the 2000 ms callbacks of createExplosion removing the sparks only while
\* the display runs
removeSparksWhileRunning(s, t) ==
    IF Before(now, s.endTime)
    THEN [s EXCEPT !.elements = @ \ {Element("spark", t.chain, t.ref)}]
    ELSE s

\* the 2000 ms callbacks of createExplosion
removeSparks(s, t) ==
    [s EXCEPT !.elements = @ \ {Element("spark", t.chain, t.ref)}]

-----------------------------------------------------------------------------
(* Confetti *)

\* Particle.update after which a particle is as visible as before
updateStuck(p) == p

\* Particle.update, as far as the particle set depends on it: a particle
\* stays in the set for a bounded number of updates
update(p) == [p EXCEPT !.life = @ - 1]
alive(p) == p.life > 0

\* an animation-frame handle that is neither pending nor the stored one
NewFrame(s) == CHOOSE f \in 1..3 : f \notin s.frames /\ f # s.animationFrame

\* animate() requesting the next frame whether or not a particle is left
animateAlwaysRequests(s) ==
    IF ~s.isAnimating THEN s
    ELSE LET updated == [i \in 1..Len(s.particles) |-> update(s.particles[i])]
         IN  [s EXCEPT !.particles = SelectSeq(updated, alive),
                       !.animationFrame = NewFrame(s),
                       !.frames = @ \cup {NewFrame(s)}]

\* animate()
animate(s) ==
    IF ~s.isAnimating THEN s
    ELSE LET updated == [i \in 1..Len(s.particles) |-> update(s.particles[i])]
             kept == SelectSeq(updated, alive)
         IN  IF Len(kept) > 0
             THEN [s EXCEPT !.particles = kept,
                            !.animationFrame = NewFrame(s),
                            !.frames = @ \cup {NewFrame(s)}]
             ELSE [s EXCEPT !.particles = kept, !.isAnimating = FALSE]

\* Confetti.init that does not attach the canvas
ConfettiInitDetached(s) == s

\* Confetti.init
ConfettiInit(s) == [s EXCEPT !.canvas = TRUE]

\* Confetti.fire calling animate() whether or not the loop runs
ConfettiFireAlwaysAnimate(s, life) ==
    LET left == [i \in 1..particleCount |-> [isLeftCannon |-> TRUE, life |-> life]]
        right == [i \in 1..particleCount |-> [isLeftCannon |-> FALSE, life |-> life]]
        s1 == [s EXCEPT !.particles = @ \o left \o right, !.bursts = @ + 1]
    IN  animate([s1 EXCEPT !.isAnimating = TRUE])

\* Confetti.fire
ConfettiFire(s, life) ==
    LET left == [i \in 1..particleCount |-> [isLeftCannon |-> TRUE, life |-> life]]
        right == [i \in 1..particleCount |-> [isLeftCannon |-> FALSE, life |-> life]]
        s1 == [s EXCEPT !.particles = @ \o left \o right, !.bursts = @ + 1]
    IN  IF ~s1.isAnimating THEN animate([s1 EXCEPT !.isAnimating = TRUE]) ELSE s1

\* Confetti.cleanup without its cancelAnimationFrame
ConfettiCleanupNoCancel(s) ==
    [s EXCEPT !.isAnimating = FALSE, !.particles = <<>>, !.canvas = FALSE]

\* Confetti.cleanup returning early when no animation runs
ConfettiCleanupIfAnimating(s) ==
    IF ~s.isAnimating THEN s
    ELSE [s EXCEPT !.isAnimating = FALSE,
                   !.frames = IF s.animationFrame # 0 THEN @ \ {s.animationFrame} ELSE @,
                   !.particles = <<>>,
                   !.canvas = FALSE]

\* Confetti.cleanup
ConfettiCleanup(s) ==
    [s EXCEPT !.isAnimating = FALSE,
              !.frames = IF s.animationFrame # 0 THEN @ \ {s.animationFrame} ELSE @,
              !.particles = <<>>,
              !.canvas = FALSE]

-----------------------------------------------------------------------------
(* The module: MMM-Birthday.js *)

\* String(name), as message.replace('{name}', name) converts its argument
String(name) == IF name = Undefined THEN "undefined" ELSE name

\* message.replace('{name}', name): the first '{name}' is replaced
Replace(message, name) ==
    LET hits == {i \in 1..Len(message) : message[i] = "{name}"}
    IN  IF hits = {} THEN message
        ELSE LET first == CHOOSE i \in hits : \A j \in hits : i <= j
             IN  [message EXCEPT ![first] = String(name)]

\* what this.translate("MESSAGES") does: it throws, or it returns a value,
\* which is the key itself when there is no translation
Key == [type |-> "string", text |-> "MESSAGES"]
NoTranslation == [throws |-> FALSE, value |-> Key]
Lookups ==
    { [throws |-> TRUE, value |-> Key],
      NoTranslation,
      [throws |-> FALSE, value |-> [type |-> "string", text |-> "Grattis!"]],
      [throws |-> FALSE, value |-> [type |-> "object"]],
      [throws |-> FALSE, value |-> [type |-> "array", items |-> <<>>]],
      [throws |-> FALSE,
       value |-> [type |-> "array",
                  items |-> << <<"Grattis, ", "{name}", "!">>,
                               <<"Ha den aran, ", "{name}", "!">> >>]] }

\* a TypeError raised by the call
TypeError == "#TypeError"

\* Array.isArray
isArray(value) == value.type = "array"

\* Math.floor(Math.random() * length), Math.random() being (pick - 1) / 3
floorRandom(pick, length) == ((pick - 1) * length) \div Len(defaultTranslations)

\* getRandomMessage(name), translate being what this.translate("MESSAGES") does
getRandomMessage(translate, name, pick) ==
    LET Default == [type |-> "array", items |-> defaultTranslations]
        looked == IF translate.throws THEN Default
                  ELSE IF translate.value = Key THEN Default
                  ELSE translate.value
        messages == IF ~isArray(looked) THEN Default ELSE looked
        index == floorRandom(pick, Len(messages.items))
    IN  IF index + 1 \in DOMAIN messages.items
        THEN Replace(messages.items[index + 1], name)
        ELSE TypeError

\* dimOtherModules
dimOtherModules(s) == [s EXCEPT !.filter = [m \in Modules |-> Dimmed]]

\* startConfetti: the first fireBurst is set for 1000 ms from now
startConfetti(s, chain) ==
    LET end == IF config.confettiDuration = INFINITE THEN Infinity
               ELSE now + config.confettiDuration
    IN  [s EXCEPT !.timers = Insert(@, Timer("fireBurst", now + firstBurstDelay, chain, 0, end)),
                  !.armed = @ + 1]

\* the stop timer keyed to confettiDuration instead of fireworkDuration
scheduleStopByConfetti(s, chain) ==
    IF config.confettiDuration # INFINITE
    THEN [s EXCEPT !.timers =
             Insert(@, Timer("stop", now + config.confettiDuration, chain, 0, 0))]
    ELSE s

\* the stop timer set only when both durations are finite, for the longer one
scheduleStopAfterBoth(s, chain) ==
    IF config.fireworkDuration # INFINITE /\ config.confettiDuration # INFINITE
    THEN [s EXCEPT !.timers =
             Insert(@, Timer("stop",
                             now + (IF config.fireworkDuration >= config.confettiDuration
                                    THEN config.fireworkDuration
                                    ELSE config.confettiDuration),
                             chain, 0, 0))]
    ELSE s

\* the end of celebrateBirthday: the stop timer, if the duration is not infinite
scheduleStop(s, chain) ==
    IF config.fireworkDuration # INFINITE
    THEN [s EXCEPT !.timers =
             Insert(@, Timer("stop", now + config.fireworkDuration, chain, 0, 0))]
    ELSE s

\* celebrateBirthday(name); r holds the random draws
celebrateBirthday(s, name, r) ==
    LET chain == NewChain(s)
        s1 == IF s.fireworks = "null"
              THEN [s EXCEPT !.fireworks = "Fireworks", !.endTime = Infinity]
              ELSE s
        s2 == ConfettiInit(s1)
        s3 == [s2 EXCEPT !.wrapper = [exists |-> TRUE, display |-> "block",
                                      message |-> getRandomMessage(NoTranslation, name, r.pick)],
                         !.began = @ + 1,
                         !.celebrant = name]
        s4 == dimOtherModules(s3)
        s5 == FireworksStart(s4, config.fireworkDuration, chain, r.delay)
        s6 == startConfetti(s5, chain)
    IN  scheduleStop(s6, chain)

\* the condition of checkBirthdays without its test of this.celebrating
acceptsWhileCelebrating(s, birthday) ==
    birthday.date = currentDate /\ ~s._wasCelebrating

\* the condition of checkBirthdays under which a birthday starts a celebration
accepts(s, birthday) ==
    birthday.date = currentDate /\ ~s.celebrating /\ ~s._wasCelebrating

\* the forEach of checkBirthdays, from birthday i on
RECURSIVE forEachBirthday(_, _, _)
forEachBirthday(s, i, r) ==
    IF i > Len(config.birthdays.items) THEN s
    ELSE LET birthday == config.birthdays.items[i]
         IN  IF accepts(s, birthday)
             THEN forEachBirthday(
                      celebrateBirthday([s EXCEPT !.celebrating = TRUE], birthday.name, r),
                      i + 1, r)
             ELSE forEachBirthday(s, i + 1, r)

\* checkBirthdays without its test of Array.isArray
checkBirthdaysUnguarded(s, r) == forEachBirthday(s, 1, r)

\* checkBirthdays
checkBirthdays(s, r) ==
    IF ~config.birthdays.isArray THEN s ELSE forEachBirthday(s, 1, r)

\* suspend without its test of this.celebrating
suspendAlways(s) ==
    LET s1 == [s EXCEPT !._wasCelebrating = TRUE]
        s2 == IF s1.fireworks # "null" THEN FireworksCleanup(s1) ELSE s1
        s3 == ConfettiCleanup(s2)
        s4 == IF s3.wrapper.exists THEN [s3 EXCEPT !.wrapper.display = "none"] ELSE s3
    IN  [s4 EXCEPT !.celebrating = FALSE]

\* suspend
suspend(s) ==
    IF s.celebrating
    THEN LET s1 == [s EXCEPT !._wasCelebrating = TRUE]
             s2 == IF s1.fireworks # "null" THEN FireworksCleanup(s1) ELSE s1
             s3 == ConfettiCleanup(s2)
             s4 == IF s3.wrapper.exists THEN [s3 EXCEPT !.wrapper.display = "none"] ELSE s3
         IN  [s4 EXCEPT !.celebrating = FALSE]
    ELSE s

\* resume without its call of celebrateBirthday
resumeShowOnly(s, r) ==
    IF s._wasCelebrating
    THEN LET s1 == [s EXCEPT !.celebrating = TRUE, !._wasCelebrating = FALSE]
         IN  IF s1.wrapper.exists THEN [s1 EXCEPT !.wrapper.display = "block"] ELSE s1
    ELSE s

\* resume without its reset of this._wasCelebrating
resumeKeepsRecord(s, r) ==
    IF s._wasCelebrating
    THEN LET s1 == [s EXCEPT !.celebrating = TRUE]
             s2 == IF s1.wrapper.exists THEN [s1 EXCEPT !.wrapper.display = "block"] ELSE s1
         IN  celebrateBirthday(s2, Undefined, r)
    ELSE s

\* resume
resume(s, r) ==
    IF s._wasCelebrating
    THEN LET s1 == [s EXCEPT !.celebrating = TRUE, !._wasCelebrating = FALSE]
             s2 == IF s1.wrapper.exists THEN [s1 EXCEPT !.wrapper.display = "block"] ELSE s1
         IN  celebrateBirthday(s2, Undefined, r)
    ELSE s

\* stopCelebration without its call of Confetti.cleanup
stopCelebrationFireworksOnly(s) ==
    LET s1 == [s EXCEPT !.wrapper.display = "none",
                        !.filter = [m \in Modules |-> ""],
                        !.celebrating = FALSE,
                        !._wasCelebrating = FALSE]
    IN  IF s1.fireworks # "null" THEN FireworksCleanup(s1) ELSE s1

\* stopCelebration(wrapper)
stopCelebration(s) ==
    LET s1 == [s EXCEPT !.wrapper.display = "none",
                        !.filter = [m \in Modules |-> ""],
                        !.celebrating = FALSE,
                        !._wasCelebrating = FALSE]
        s2 == IF s1.fireworks # "null" THEN FireworksCleanup(s1) ELSE s1
    IN  ConfettiCleanup(s2)

\* fireBurst without its test of this.celebrating
fireBurstUnguarded(s, t, delay, life) ==
    IF Before(now, t.end)
    THEN LET s1 == ConfettiFire(s, life)
         IN  [s1 EXCEPT !.timers = Insert(@, Timer("fireBurst", now + delay, t.chain, 0, t.end)),
                        !.armed = @ + 1]
    ELSE s

\* fireBurst without its test of the time against end
fireBurstNoDeadline(s, t, delay, life) ==
    IF s.celebrating
    THEN LET s1 == ConfettiFire(s, life)
         IN  [s1 EXCEPT !.timers = Insert(@, Timer("fireBurst", now + delay, t.chain, 0, t.end)),
                        !.armed = @ + 1]
    ELSE s

\* the fireBurst closure of startConfetti
fireBurst(s, t, delay, life) ==
    IF s.celebrating /\ Before(now, t.end)
    THEN LET s1 == ConfettiFire(s, life)
         IN  [s1 EXCEPT !.timers = Insert(@, Timer("fireBurst", now + delay, t.chain, 0, t.end)),
                        !.armed = @ + 1]
    ELSE s

-----------------------------------------------------------------------------
(* The event loop *)

Draws == [pick : 1..Len(defaultTranslations), delay : LaunchDelays]

Init ==
    /\ started = FALSE
    /\ config \in [birthdays : BirthdayConfigs, fireworkDuration : DurationConfigs,
                   confettiDuration : DurationConfigs]
    /\ celebrating = FALSE
    /\ _wasCelebrating = FALSE
    /\ fireworks = "null"
    /\ endTime = Infinity
    /\ elements = {}
    /\ particles = <<>>
    /\ isAnimating = FALSE
    /\ animationFrame = 0
    /\ frames = {}
    /\ canvas = FALSE
    /\ wrapper \in {[exists |-> e, display |-> "", message |-> <<>>] : e \in BOOLEAN}
    /\ filter = [m \in Modules |-> ""]
    /\ timers = <<>>
    /\ now = Epoch
    /\ granule \in Granules
    /\ last = Did("init", Cur)
    /\ session = [at |-> 0, name |-> Undefined, torn |-> FALSE, undisturbed |-> TRUE,
                  alone |-> TRUE, nth |-> 0, hidden |-> FALSE]

\* no timer is due: the event loop is idle until the next clock reading
Quiet == timers # <<>> => Head(timers).due > now

\* the timer that is due next is of this kind
Due(kind) == timers # <<>> /\ Head(timers).due <= now /\ Head(timers).kind = kind

\* the state a callback starts in: its timer has left the queue
Popped == [Cur EXCEPT !.timers = Tail(@)]

\* a celebration begins only where the timer queue has room for its timers
Fits(s) == s.began > 0 => CanStart

\* start(): scheduleNextCheck sets the interval and runs the first check
Start ==
    /\ ~started
    /\ \E r \in Draws :
         LET s0 == [Cur EXCEPT !.timers = Insert(@, Timer("check", now + checkInterval, 0, 0, 0))]
             s == checkBirthdays(s0, r)
         IN  Fits(s) /\ Run("check", s)
    /\ started' = TRUE
    /\ UNCHANGED <<config, now, granule>>

\* the setInterval callback of scheduleNextCheck
Check ==
    /\ Due("check")
    /\ \E r \in Draws :
         LET s0 == [Popped EXCEPT !.timers =
                       Insert(@, Timer("check", Head(timers).due + checkInterval, 0, 0, 0))]
             s == checkBirthdays(s0, r)
         IN  Fits(s) /\ Run("check", s)
    /\ UNCHANGED <<started, config, now, granule>>

\* the host hides the module
Suspend ==
    /\ started
    /\ Quiet
    /\ Run("suspend", suspend(Cur))
    /\ UNCHANGED <<started, config, now, granule>>

\* the host shows the module
Resume ==
    /\ started
    /\ Quiet
    /\ \E r \in Draws :
         LET s == resume(Cur, r) IN Fits(s) /\ Run("resume", s)
    /\ UNCHANGED <<started, config, now, granule>>

\* the launchNext callback of Fireworks.start
LaunchNext ==
    /\ Due("launchNext")
    /\ \E d \in LaunchDelays : Run("launchNext", launchNext(Popped, Head(timers).chain, Head(timers).ref, d))
    /\ UNCHANGED <<started, config, now, granule>>

\* the 800 ms callback of Fireworks.launch
Explode ==
    /\ Due("explode")
    /\ Run("explode", explode(Popped, Head(timers)))
    /\ UNCHANGED <<started, config, now, granule>>

\* the 1000 ms callback of Fireworks.launch
RemoveRocket ==
    /\ Due("removeRocket")
    /\ Run("removeRocket", removeRocket(Popped, Head(timers)))
    /\ UNCHANGED <<started, config, now, granule>>

\* the 2000 ms callbacks of Fireworks.createExplosion
RemoveSparks ==
    /\ Due("removeSparks")
    /\ Run("removeSparks", removeSparks(Popped, Head(timers)))
    /\ UNCHANGED <<started, config, now, granule>>

\* the fireBurst callback of startConfetti
FireBurst ==
    /\ Due("fireBurst")
    /\ \E d \in BurstDelays, life \in Lifetimes :
         Run("fireBurst", fireBurst(Popped, Head(timers), d, life))
    /\ UNCHANGED <<started, config, now, granule>>

\* the stop timer of celebrateBirthday
Stop ==
    /\ Due("stop")
    /\ Run("stop", stopCelebration(Popped))
    /\ UNCHANGED <<started, config, now, granule>>

\* a requestAnimationFrame callback runs animate
Frame ==
    /\ Quiet
    /\ \E f \in frames : Run("frame", animate([Cur EXCEPT !.frames = @ \ {f}]))
    /\ UNCHANGED <<started, config, now, granule>>

\* the clock advances when nothing is due
Tick ==
    /\ started
    /\ Quiet
    /\ now + granule <= Epoch + MaxTicks * granule
    /\ now' = now + granule
    /\ last' = Did("tick", Cur)
    /\ UNCHANGED <<started, config, celebrating, _wasCelebrating, fireworks, endTime,
                   elements, particles, isAnimating, animationFrame, frames, canvas,
                   wrapper, filter, timers, granule, session>>

Next ==
    \/ Start \/ Check \/ Suspend \/ Resume
    \/ LaunchNext \/ Explode \/ RemoveRocket \/ RemoveSparks \/ FireBurst \/ Stop
    \/ Frame \/ Tick

Spec == Init /\ [][Next]_vars

-----------------------------------------------------------------------------
(* The Confetti singleton on its own: its interface init, fire and cleanup   *)
(* called in any order, and the frame callbacks it requests.  The browser    *)
(* runs a requested frame callback (weak fairness of Frame).  The module is   *)
(* constructed with its default configuration and never started (Boot).      *)

\* defaults
defaults ==
    [birthdays |-> [isArray |-> TRUE, items |-> <<>>],
     fireworkDuration |-> INFINITE, confettiDuration |-> INFINITE]

Boot == Init /\ config = defaults

\* Confetti.init()
CallInit ==
    /\ Run("init", ConfettiInit(Cur))
    /\ UNCHANGED <<started, config, now, granule>>

\* Confetti.fire(), while the particle set holds fewer than MaxBursts bursts
CallFire ==
    /\ Len(particles) < MaxBursts * 2 * particleCount
    /\ \E life \in Lifetimes : Run("fire", ConfettiFire(Cur, life))
    /\ UNCHANGED <<started, config, now, granule>>

\* Confetti.cleanup()
CallCleanup ==
    /\ Run("cleanup", ConfettiCleanup(Cur))
    /\ UNCHANGED <<started, config, now, granule>>

ConfettiNext == CallInit \/ CallFire \/ CallCleanup \/ Frame

ConfettiSpec == Boot /\ [][ConfettiNext]_vars /\ WF_vars(Frame)

-----------------------------------------------------------------------------
(* getRandomMessage on its own: called with any outcome of the translation   *)
(* lookup, any name and any random draw.                                     *)

Names == {"Anna", "Bob", Undefined}

CallGetRandomMessage ==
    /\ \E translate \in Lookups, name \in Names, pick \in 1..Len(defaultTranslations) :
         last' = [op |-> "getRandomMessage", translate |-> translate, name |-> name,
                  pick |-> pick, result |-> getRandomMessage(translate, name, pick)]
    /\ UNCHANGED <<started, config, celebrating, _wasCelebrating, fireworks, endTime,
                   elements, particles, isAnimating, animationFrame, frames, canvas,
                   wrapper, filter, timers, now, granule, session>>

MessageNext == CallGetRandomMessage

MessageSpec == Boot /\ [][MessageNext]_vars

-----------------------------------------------------------------------------
(* class Particle on its own: a particle is constructed and updated frame by *)
(* frame until update() returns false.  Lengths are in hundredths of a pixel *)
(* and opacities in hundredths (Scale), factors in thousandths, and products *)
(* are rounded to the nearest hundredth; the source computes in floating     *)
(* point.                                                                    *)

Scale == 100
gravity == Scale \div 4
fireVelocity == 45 * Scale
cannonLift == 20 * Scale
visibleOpacity == Scale \div 10

\* a times m thousandths, to the nearest
PerMille(a, m) == (a * m + 500) \div 1000

\* Math.sqrt, rounded down, by bisection; no speed reaches 2 * fireVelocity
RECURSIVE bisect(_, _, _)
bisect(n, lo, hi) ==
    IF hi - lo <= 1 THEN lo
    ELSE LET mid == (lo + hi) \div 2
         IN  IF mid * mid <= n THEN bisect(n, mid, hi) ELSE bisect(n, lo, mid)
sqrt(n) == bisect(n, 0, 2 * fireVelocity)

Min(a, b) == IF a <= b THEN a ELSE b
Max(a, b) == IF a >= b THEN a ELSE b

\* window.innerHeight: a small panel and a full-HD screen
Heights == {480 * Scale, 1080 * Scale}

\* Math.cos and Math.sin of the launch angle, in thousandths: the base angle of
\* the left cannon (-45 degrees) and of the right one (-135 degrees), each as
\* it is and turned by 20 degrees either way, the most that the variation and
\* the spread add
Angles ==
    { [cos |-> 707, sin |-> -707], [cos |-> 906, sin |-> -423], [cos |-> 423, sin |-> -906],
      [cos |-> -707, sin |-> -707], [cos |-> -906, sin |-> -423], [cos |-> -423, sin |-> -906] }

\* options.velocity * (0.95 + Math.random() * 0.25), Math.random() 0 and almost 1
Velocities == {PerMille(fireVelocity, 950), PerMille(fireVelocity, 1199)}

\* new Particle(context, options), as far as update() depends on it
NewParticle(height, angle, velocity) ==
    [y |-> height - cannonLift,
     vx |-> PerMille(velocity, angle.cos),
     vy |-> PerMille(PerMille(velocity, angle.sin), 1400),
     opacity |-> Scale]

\* Particle.update(): the particle after the call
ParticleUpdate(q, height) ==
    LET y == q.y + q.vy
        vx == PerMille(q.vx, 1000 - 45)
        vy == PerMille(q.vy + gravity, 1000 - 45)
        velocityFade == Min(Scale, sqrt(vx * vx + vy * vy) \div 6)
        heightFade == Scale - Max(0, ((y - PerMille(height, 950)) * Scale)
                                         \div PerMille(height, 50))
    IN  [y |-> y, vx |-> vx, vy |-> vy, opacity |-> Min(velocityFade, heightFade)]

\* Particle.update(): the value it returns
visible(q, height) == q.opacity > visibleOpacity /\ q.y < height

\* Confetti.fire constructs a particle
Construct ==
    /\ particles = <<>>
    /\ last.op = "init"
    /\ \E height \in Heights, angle \in Angles, velocity \in Velocities :
         /\ particles' = <<NewParticle(height, angle, velocity)>>
         /\ last' = [op |-> "new Particle", height |-> height,
                     particle |-> NewParticle(height, angle, velocity)]
    /\ UNCHANGED <<started, config, celebrating, _wasCelebrating, fireworks, endTime,
                   elements, isAnimating, animationFrame, frames, canvas,
                   wrapper, filter, timers, now, granule, session>>

\* animate calls update() on the particle and keeps it if update() returns true
UpdateParticle ==
    /\ particles # <<>>
    /\ LET q == ParticleUpdate(particles[1], last.height)
       IN  /\ particles' = IF visible(q, last.height) THEN <<q>> ELSE <<>>
           /\ last' = [op |-> "update", height |-> last.height, particle |-> q]
    /\ UNCHANGED <<started, config, celebrating, _wasCelebrating, fireworks, endTime,
                   elements, isAnimating, animationFrame, frames, canvas,
                   wrapper, filter, timers, now, granule, session>>

ParticleNext == Construct \/ UpdateParticle

ParticleSpec == Boot /\ [][ParticleNext]_vars

-----------------------------------------------------------------------------
(* class Fireworks on its own: an instance is constructed, start(duration)   *)
(* and cleanup() are called in any order during the first MaxTicks clock    *)
(* readings, and the timers they set run.  The browser runs a timer that is  *)
(* due and the clock advances (weak fairness); the clock is followed for as  *)
(* long as a timer is pending and the display has an end.  The module has   *)
(* its wrapper in the document; the class does not use it.                   *)

\* new Fireworks()
NewFireworks ==
    /\ fireworks = "null"
    /\ Run("new Fireworks", [Cur EXCEPT !.fireworks = "Fireworks", !.endTime = Infinity])
    /\ UNCHANGED <<started, config, now, granule>>

\* Fireworks.start(duration), called as the module calls it: on a display
\* that has not been started or whose end-time has passed
CallStart ==
    /\ fireworks # "null"
    /\ Quiet
    /\ now < Epoch + MaxTicks * granule
    /\ Len(timers) + 3 <= MaxTimers
    /\ \/ \A i \in DOMAIN timers : timers[i].kind # "launchNext"
       \/ endTime # Infinity /\ endTime < now
    /\ \E duration \in DurationConfigs, d \in LaunchDelays :
         Run("start", FireworksStart(Cur, duration, NewChain(Cur), d))
    /\ UNCHANGED <<started, config, now, granule>>

\* Fireworks.cleanup()
CallFireworksCleanup ==
    /\ fireworks # "null"
    /\ Quiet
    /\ Run("cleanup", FireworksCleanup(Cur))
    /\ UNCHANGED <<started, config, now, granule>>

\* the clock advances when nothing is due and a timer is pending
Wait ==
    /\ timers # <<>>
    /\ Quiet
    /\ now < Epoch + MaxTicks * granule \/ endTime # Infinity
    /\ now' = now + granule
    /\ last' = Did("tick", Cur)
    /\ UNCHANGED <<started, config, celebrating, _wasCelebrating, fireworks, endTime,
                   elements, particles, isAnimating, animationFrame, frames, canvas,
                   wrapper, filter, timers, granule, session>>

\* the event loop: a timer that is due runs, or the clock advances
Elapse == LaunchNext \/ Explode \/ RemoveRocket \/ RemoveSparks \/ Wait

FireworksNext == NewFireworks \/ CallStart \/ CallFireworksCleanup \/ Elapse

\* the module constructed, its wrapper in the document
Mounted == Boot /\ wrapper.exists

FireworksSpec == Mounted /\ [][FireworksNext]_vars /\ WF_vars(Elapse)

-----------------------------------------------------------------------------
(* The horizontal position Fireworks.launch gives a rocket, on its own: for  *)
(* any viewport width and any random draw.  Math.random() is k / RandomSteps *)
(* for k in 0 .. RandomSteps - 1, and a position is kept as RandomSteps      *)
(* times its value in pixels, so that no rounding is involved.               *)

\* window.innerWidth: no viewport, narrower than the two margins, as wide as
\* them, and wider
Widths == {0, 40, 99, 100, 101, 320, 1080, 1920}

\* the margin launch keeps from either edge
launchMargin == 50

\* launch: x = Math.random() * (window.innerWidth - 100) + 50, times RandomSteps
launchX(innerWidth, k) == k * (innerWidth - 2 * launchMargin) + launchMargin * RandomSteps

\* launch computes the position of a rocket
ComputeX ==
    /\ \E innerWidth \in Widths, k \in 0..(RandomSteps - 1) :
         last' = [op |-> "launch", innerWidth |-> innerWidth, random |-> k,
                  x |-> launchX(innerWidth, k)]
    /\ UNCHANGED <<started, config, celebrating, _wasCelebrating, fireworks, endTime,
                   elements, particles, isAnimating, animationFrame, frames, canvas,
                   wrapper, filter, timers, now, granule, session>>

PositionNext == ComputeX

LaunchSpec == Boot /\ [][PositionNext]_vars

-----------------------------------------------------------------------------
(* Properties *)

Finite == config.fireworkDuration # INFINITE
Pending(kind) == {i \in DOMAIN timers : timers[i].kind = kind}
Matching ==
    /\ config.birthdays.isArray
    /\ \E i \in DOMAIN config.birthdays.items : config.birthdays.items[i].date = currentDate
Range(seq) == {seq[i] : i \in DOMAIN seq}
\* the fireworks end-time is in the past
EndPassed == endTime # Infinity /\ endTime < now
Undimmed == \A m \in Modules : filter[m] = ""
EmitterFields == {"endTime", "elements", "particles", "isAnimating", "animationFrame",
                  "frames", "canvas"}

\* C1: a birthday check starts one celebration when a birthday matches and the
\* module is idle, however many birthdays match, and none otherwise: when the
\* module is celebrating or suspended with a pending resume, the check starts
\* no emitter and changes no field.
OneCelebration ==
    last.op = "check" =>
        /\ last.began <= 1
        /\ last.began = 1 <=> Matching /\ ~last.pre.celebrating /\ ~last.pre._wasCelebrating
        /\ (last.pre.celebrating \/ last.pre._wasCelebrating) =>
               /\ last.began = 0 /\ last.launched = 0 /\ last.bursts = 0 /\ last.armed = 0
               /\ last.touched = {}

\* a check ran on a matching birthday while a celebration was active
CheckWhileCelebrating ==
    last.op = "check" /\ last.pre.celebrating /\ Matching /\ celebrating

\* C2: with a finite fireworkDuration d the stop callback leaves everything
\* stopped, hidden, undimmed and torn down, and a celebration begun at t with no
\* suspend since is stopped by the clock reading that reaches t + d; its own
\* stop timer runs at that reading and not before.
AutoStop ==
    /\ last.op = "stop" =>
           /\ ~celebrating /\ wrapper.display = "none" /\ Undimmed
           /\ EndPassed /\ elements = {}
           /\ particles = <<>> /\ ~canvas
    /\ (Finite /\ session.at > 0 /\ session.undisturbed /\ Quiet
            /\ now >= session.at + config.fireworkDuration) => ~celebrating
    /\ (last.op = "stop" /\ session.undisturbed /\ session.alone) =>
           /\ now >= session.at + config.fireworkDuration
           /\ now < session.at + config.fireworkDuration + granule

\* the stop timer of an undisturbed celebration ran at t + d and ended it
StoppedOnTime ==
    /\ last.op = "stop" /\ last.pre.celebrating
    /\ session.undisturbed /\ session.alone
    /\ now = session.at + config.fireworkDuration
    /\ {"particles", "elements", "canvas", "filter"} \subseteq last.touched

\* C3: with fireworkDuration "infinite" no stop timer is ever pending, and
\* celebrating becomes false only in suspend.
NoAutoStopWhenInfinite ==
    config.fireworkDuration = INFINITE =>
        /\ Pending("stop") = {}
        /\ ("celebrating" \in last.touched /\ ~celebrating) => last.op = "suspend"

\* an infinite celebration is still running 60 s after it began
StillCelebratingAfterAMinute ==
    /\ config.fireworkDuration = INFINITE
    /\ celebrating /\ Quiet
    /\ now >= session.at + 60000

\* C4: a resume that finds a suspended celebration of infinite duration leaves
\* it celebrating and visible, with the launch chain running again under an
\* unbounded end-time, the canvas attached and a burst chain scheduled.
ResumeRestores ==
    (last.op = "resume" /\ last.pre._wasCelebrating /\ config.fireworkDuration = INFINITE) =>
        /\ celebrating /\ ~_wasCelebrating
        /\ wrapper.exists /\ wrapper.display = "block"
        /\ endTime = Infinity
        /\ last.launched = 1
        /\ \E i \in Pending("launchNext") : timers[i].due > now
        /\ canvas
        /\ \E i \in Pending("fireBurst") : timers[i].due = now + firstBurstDelay

\* the host resumed an infinite celebration it had suspended
ResumedInfinite ==
    /\ last.op = "resume" /\ last.pre._wasCelebrating
    /\ config.fireworkDuration = INFINITE

\* C5: a suspend that finds the module celebrating leaves celebrating false
\* and _wasCelebrating true, the end-time passed, no rocket or spark, no
\* particle, no frame loop, the canvas detached and the wrapper hidden.
SuspendTearsDown ==
    (last.op = "suspend" /\ last.pre.celebrating) =>
        /\ ~celebrating /\ _wasCelebrating
        /\ EndPassed /\ elements = {}
        /\ particles = <<>> /\ ~isAnimating /\ frames = {} /\ ~canvas
        /\ wrapper.display = "none"

\* the host suspended a celebration whose two emitters were active
SuspendedActive ==
    /\ last.op = "suspend" /\ last.pre.celebrating
    /\ {"elements", "particles", "frames", "canvas"} \subseteq last.touched

\* C6: the message a resume renders carries the name the birthday check passed
\* to celebrateBirthday.
ResumeKeepsName ==
    (last.op = "resume" /\ last.began = 1) => session.name \in Range(wrapper.message)

\* C7: with a finite duration d, a launchNext callback of the chain that
\* Fireworks.start set up at time s, running at or after s + d, launches no
\* rocket and sets no further timer.
ChainEndsAtDeadline ==
    (Finite /\ last.op = "launchNext" /\ now >= last.since + config.fireworkDuration) =>
        last.launched = 0 /\ last.armed = 0

\* C8: Fireworks.cleanup and Confetti.cleanup, run in any reachable state, leave
\* the torn-down state, and run again they leave it as it is.
CleanupIdempotent ==
    LET f == FireworksCleanup(Cur)
        c == ConfettiCleanup(Cur)
    IN  /\ f.endTime = 0 /\ f.elements = {}
        /\ FireworksCleanup(f) = f
        /\ c.particles = <<>> /\ ~c.isAnimating /\ c.frames = {} /\ ~c.canvas
        /\ ConfettiCleanup(c) = c

\* both cleanups ran on emitters that were already torn down
CleanedUpTwice ==
    /\ last.op = "stop" /\ ~last.pre.celebrating
    /\ session.torn
    /\ last.touched \cap EmitterFields = {}

\* C9: a launchNext or fireBurst callback that runs after stop or suspend has
\* torn the emitters down, and before a new start, launches nothing, fires
\* nothing, sets no timer and changes no field.
StaleCallbackIdle ==
    (last.op \in {"launchNext", "fireBurst"} /\ session.torn) =>
        /\ last.launched = 0 /\ last.bursts = 0 /\ last.armed = 0
        /\ last.touched = {}

\* a fireBurst left pending by a torn-down celebration has run
StaleBurstRan ==
    last.op = "fireBurst" /\ session.torn /\ session.at > 0

\* C10: at most one pending launchNext can still launch and at most one
\* pending fireBurst can still fire.
SingleChain ==
    /\ ~EndPassed => Cardinality(Pending("launchNext")) <= 1
    /\ celebrating =>
           Cardinality({i \in Pending("fireBurst") :
                           timers[i].end = Infinity \/ now < timers[i].end}) <= 1

\* C11: the birthday checks begin a celebration once per calendar date: a
\* check that begins a celebration begins the first one of the date.
OncePerDate ==
    (last.op = "check" /\ last.began = 1) => session.nth = 1

\* the number a string of two digits stands for
Value(str) ==
    LET d(ch) == CHOOSE k \in 0..9 : Digits[k + 1] = ch
    IN  10 * d(str[1]) + d(str[2])

\* a configured date of the documented formats MM-DD and MM-DD HH:mm that is
\* today and, if it has a time, whose time has come
Documented(date) ==
    \/ Len(date) = 5 /\ date = currentDate
    \/ /\ Len(date) = 11
       /\ SubSeq(date, 1, 5) = currentDate
       /\ date[6] = " " /\ date[9] = ":"
       /\ 60 * Value(SubSeq(date, 7, 8)) + Value(SubSeq(date, 10, 11))
              <= 60 * Today.hours + Today.minutes

\* C12: a check that runs while the module is idle begins a celebration if a
\* birthday of either documented format, MM-DD or MM-DD HH:mm, is due.
BothFormatsTrigger ==
    (/\ last.op = "check" /\ ~last.pre.celebrating /\ ~last.pre._wasCelebrating
     /\ config.birthdays.isArray
     /\ \E i \in DOMAIN config.birthdays.items : Documented(config.birthdays.items[i].date))
        => last.began = 1

\* C13: a suspend that finds the module not celebrating, and a resume that
\* finds no celebration recorded, change no field of the module or of the
\* emitters, neither the wrapper nor the dimming, and no pending timer.
RedundantHooksIdle ==
    ((last.op = "suspend" /\ ~last.pre.celebrating)
        \/ (last.op = "resume" /\ ~last.pre._wasCelebrating)) =>
        /\ last.touched = {} /\ last.kept
        /\ last.began = 0 /\ last.launched = 0 /\ last.bursts = 0 /\ last.armed = 0

\* the host suspended a module that was suspended already, timers pending
SuspendedTwice ==
    /\ last.op = "suspend" /\ ~last.pre.celebrating
    /\ _wasCelebrating /\ Pending("launchNext") # {}

\* C14: a frame callback never makes the particle set larger; a non-empty
\* particle set is eventually empty with the frame loop halted, unless fire is
\* called; and a frame callback that leaves the set empty leaves isAnimating
\* false and no frame requested.
ParticlesDrain ==
    /\ [][last'.op = "frame" => Len(particles') <= Len(particles)]_vars
    /\ (particles # <<>>) ~>
           ((particles = <<>> /\ ~isAnimating /\ frames = {}) \/ last.op = "fire")
    /\ []((last.op = "frame" /\ particles = <<>>) => (~isAnimating /\ frames = {}))

\* a frame callback emptied the particle set of a burst
DrainedByFrame ==
    /\ last.op = "frame" /\ "particles" \in last.touched
    /\ particles = <<>> /\ ~isAnimating /\ frames = {}

\* the lookup gave no list of templates to draw from
Unavailable(translate) ==
    \/ translate.throws
    \/ ~isArray(translate.value)
    \/ translate.value.items = <<>>

\* C15: whatever the translation lookup does, getRandomMessage raises nothing
\* and returns a template with the name in the place of {name}; the template
\* is one of the three built-in ones when the lookup gave no list of templates.
MessageAlwaysRendered ==
    last.op = "getRandomMessage" =>
        /\ last.result # TypeError
        /\ String(last.name) \in Range(last.result)
        /\ "{name}" \notin Range(last.result)
        /\ Unavailable(last.translate) =>
               \E i \in DOMAIN defaultTranslations :
                   last.result = Replace(defaultTranslations[i], last.name)

\* C16: a check that finds config.birthdays not to be an array begins nothing,
\* starts no emitter, sets no chain timer and changes no field, celebrating
\* stays false, and the interval timer of the checks stays pending.
MalformedConfigSkipped ==
    (last.op = "check" /\ ~config.birthdays.isArray) =>
        /\ last.touched = {} /\ ~celebrating
        /\ last.began = 0 /\ last.launched = 0 /\ last.bursts = 0 /\ last.armed = 0
        /\ Cardinality(Pending("check")) = 1
        /\ \A i \in Pending("check") : timers[i].due > now

\* the interval check ran on a configuration that is not an array
MalformedConfigChecked ==
    /\ last.op = "check" /\ ~config.birthdays.isArray
    /\ now >= Epoch + checkInterval

\* C17: after every Particle.update() the opacity the particle stores is
\* within [0, 1].
OpacityInRange ==
    last.op = "update" => (0 <= last.particle.opacity /\ last.particle.opacity <= Scale)

\* C18: with a finite fireworkDuration at most one stop timer is pending, and
\* a stop timer that ends a celebration is that celebration's own: it runs no
\* earlier than fireworkDuration after the celebration began.
SingleStopTimer ==
    Finite =>
        /\ Cardinality(Pending("stop")) <= 1
        /\ (last.op = "stop" /\ last.pre.celebrating) =>
               now >= session.at + config.fireworkDuration

\* C19: once stop or suspend has run Fireworks.cleanup, no rocket or spark is
\* on the display until a celebration begins again.
NoElementAfterCleanup ==
    session.torn => elements = {}

\* C20: a celebration that suspend has recorded stays recorded until resume:
\* _wasCelebrating goes from true to false in resume only.
RecordKeptUntilResume ==
    ("_wasCelebrating" \in last.touched /\ ~_wasCelebrating) => last.op = "resume"

\* the confetti duration is infinite or longer than the fireworks duration
ConfettiOutlasts ==
    config.confettiDuration = INFINITE
        \/ config.confettiDuration > config.fireworkDuration

\* C21: a call of celebrateBirthday leaves a stop timer due fireworkDuration
\* from now if and only if fireworkDuration is finite, whatever confettiDuration
\* is.  With a finite fireworkDuration that confettiDuration outlasts, the stop
\* empties the particle set and a fireBurst that finds the celebration stopped
\* fires nothing and sets no timer.  With an infinite fireworkDuration and a
\* finite confettiDuration c, a fireBurst that runs c or more after the
\* celebration began fires nothing and sets no timer, while celebrating stays
\* as it was and, if true, the launch chain goes on under an unbounded end-time.
StopKeyedToFireworks ==
    /\ last.began = 1 =>
           (Finite <=> \E i \in Pending("stop") :
                          timers[i].due = now + config.fireworkDuration)
    /\ ~Finite => Pending("stop") = {}
    /\ (Finite /\ ConfettiOutlasts) =>
           /\ last.op = "stop" => (~celebrating /\ particles = <<>> /\ frames = {})
           /\ (last.op = "fireBurst" /\ ~last.pre.celebrating) =>
                  (last.bursts = 0 /\ last.armed = 0)
    /\ (~Finite /\ config.confettiDuration # INFINITE /\ last.op = "fireBurst"
            /\ now >= session.at + config.confettiDuration) =>
           /\ last.bursts = 0 /\ last.armed = 0
           /\ celebrating = last.pre.celebrating
           /\ celebrating => (endTime = Infinity /\ Pending("launchNext") # {})

\* the burst chain of an infinite celebration found its confettiDuration over:
\* the celebration and the launch chain go on
BurstsCeasedFireworksOn ==
    /\ ~Finite /\ config.confettiDuration # INFINITE
    /\ last.op = "fireBurst" /\ last.pre.celebrating
    /\ now >= session.at + config.confettiDuration
    /\ celebrating /\ Pending("launchNext") # {}

\* the fireBurst timers an entry point has set for the closure chain to end at
\* end, due between lo and hi from now
Armed(state, chain, end, lo, hi) ==
    {i \in DOMAIN state.timers :
        /\ state.timers[i].kind = "fireBurst"
        /\ state.timers[i].chain = chain /\ state.timers[i].end = end
        /\ state.timers[i].due >= now + lo /\ state.timers[i].due <= now + hi}

\* C22: an entry point that begins a celebration fires no burst itself and
\* sets the first fireBurst for 1000 ms later, to end confettiDuration from
\* now (never, if infinite); a fireBurst runs at the first clock reading that
\* reaches its due time; it fires a burst only if celebrating is true and the
\* time is before the end its chain was started with, and then it sets the
\* next fireBurst of the same chain, with the same end, 2 to 8 seconds later.
BurstsWithinWindow ==
    /\ [](last.began = 1 =>
             /\ last.bursts = 0
             /\ \E i \in Pending("fireBurst") :
                    /\ timers[i].due = now + firstBurstDelay
                    /\ timers[i].end = IF config.confettiDuration = INFINITE THEN Infinity
                                       ELSE now + config.confettiDuration)
    /\ [][last'.op = "fireBurst" =>
             /\ Head(timers).due <= now /\ now < Head(timers).due + granule
             /\ last'.bursts <= 1
             /\ last'.bursts = 1 =>
                    /\ celebrating
                    /\ Head(timers).end # Infinity => now < Head(timers).end
                    /\ Armed([timers |-> timers'], Head(timers).chain, Head(timers).end,
                             burstDelayBase, burstDelayBase + burstDelaySpan - 1) # {}]_vars

\* the first burst of a chain with a finite confettiDuration was fired 1000 ms
\* after the celebration began
FirstBurstAfterASecond ==
    /\ config.confettiDuration # INFINITE
    /\ last.op = "fireBurst" /\ last.bursts = 1
    /\ now = session.at + firstBurstDelay

\* C23: other modules are dimmed only during a celebration: while celebrating
\* is false, after a stop and also after a suspend, no other module carries
\* the brightness(30%) filter.
DimmedOnlyWhileCelebrating ==
    ~celebrating => Undimmed

\* C24: celebrating and _wasCelebrating are never both true.
FlagsExclusive ==
    ~(celebrating /\ _wasCelebrating)

\* a check found a matching birthday while a suspended celebration was
\* recorded, and left the two flags as they were
CheckedWhileSuspended ==
    /\ last.op = "check" /\ last.pre._wasCelebrating /\ Matching
    /\ _wasCelebrating /\ ~celebrating

NoStartWhileSuspended ==
    session.hidden =>
        /\ ~celebrating
        /\ last.began = 0 /\ last.launched = 0 /\ last.bursts = 0

\* the particles a step has appended to the particle set
Added == SubSeq(particles', Len(particles) + 1, Len(particles'))

\* C27: a call of Confetti.fire() appends 30 particles, 15 of the left cannon
\* and 15 of the right one, to the particle set and removes none, and leaves
\* isAnimating true with one frame requested: if isAnimating was false it
\* requests a frame, and if it was true the pending frame request stays the
\* only one.
FireAddsThirty ==
    [][last'.op = "fire" =>
         /\ Len(particles') = Len(particles) + 2 * particleCount
         /\ \A i \in DOMAIN particles :
                particles'[i].isLeftCannon = particles[i].isLeftCannon
         /\ Cardinality({i \in DOMAIN Added : Added[i].isLeftCannon}) = particleCount
         /\ Cardinality({i \in DOMAIN Added : ~Added[i].isLeftCannon}) = particleCount
         /\ isAnimating' /\ Cardinality(frames') = 1
         /\ isAnimating => (frames' = frames /\ animationFrame' = animationFrame)
         /\ ~isAnimating => (frames = {} /\ frames' = {animationFrame'})]_vars

\* fire was called while the loop was running on the particles of a burst
FiredWhileAnimating ==
    /\ last.op = "fire" /\ isAnimating
    /\ Len(particles) = 4 * particleCount
    /\ Cardinality(frames) = 1

\* C28: a frame callback that leaves the particle set empty leaves isAnimating
\* false and no frame requested; one that leaves it non-empty leaves isAnimating
\* true and exactly one frame requested, a new request, whose handle is stored.
FrameRequestsMatchParticles ==
    [][last'.op = "frame" =>
         /\ particles' = <<>> => (~isAnimating' /\ frames' = {})
         /\ particles' # <<>> =>
                /\ isAnimating'
                /\ frames' = {animationFrame'}
                /\ animationFrame' \notin frames]_vars

\* a frame callback removed the particles of one burst and kept those of
\* another, requesting the next frame
FrameKeptSomeParticles ==
    /\ last.op = "frame" /\ isAnimating
    /\ Len(particles) = 2 * particleCount
    /\ \A i \in DOMAIN particles : particles[i].life = 2
    /\ frames = {animationFrame}

\* C29: at most one animation-frame callback is pending, and one is pending
\* only while isAnimating is true and the particle set is non-empty.
SingleFrameLoop ==
    /\ Cardinality(frames) <= 1
    /\ frames # {} => (isAnimating /\ particles # <<>>)

\* cleanup was called with a frame requested, and cancelled it
CleanupCancelledFrame ==
    /\ last.op = "cleanup" /\ "frames" \in last.touched
    /\ frames = {} /\ animationFrame # 0

\* the launch chain has ended: no launchNext is pending, or the end-time is
\* in the past
ChainEnded == Pending("launchNext") = {} \/ EndPassed

\* the pending timers that remove the sparks e
Removal(e) ==
    {i \in Pending("removeSparks") : timers[i].chain = e.chain /\ timers[i].ref = e.ref}

\* C30: whenever the event loop has run the timers that are due, every rocket
\* on the display was launched less than 1000 ms ago and every spark has its
\* removal pending, set at its explosion for 2000 ms later, whether the launch
\* chain continues or has ended; and once the chain has ended, eventually no
\* rocket or spark is on the display, unless start is called again.
ElementsSelfRemove ==
    /\ [](Quiet =>
             \A e \in elements :
                 /\ e.cls = "rocket" => now < e.ref + rocketRemoval
                 /\ e.cls = "spark" =>
                        \E i \in Removal(e) :
                            timers[i].due > now /\ timers[i].due <= now + sparkRemoval)
    /\ [][last'.op = "explode" =>
             \E i \in DOMAIN timers' :
                 /\ timers'[i].kind = "removeSparks"
                 /\ timers'[i].due = now + sparkRemoval
                 /\ Element("spark", timers'[i].chain, timers'[i].ref) \in elements']_vars
    /\ ChainEnded ~> (elements = {} \/ last.op = "start")

\* the display of a chain that ended at its own end-time has emptied: the
\* last sparks were removed by their timer
LastSparksRemoved ==
    /\ last.op = "removeSparks" /\ "elements" \in last.touched
    /\ elements = {} /\ timers = <<>>
    /\ endTime > 0

\* C31: the horizontal launch position is in a valid range for every viewport
\* width W: in [50, W - 50) for W > 100, and inside the viewport, 0 <= x <= W,
\* for W < 100.
LaunchInView ==
    last.op = "launch" =>
        /\ last.innerWidth > 2 * launchMargin =>
               /\ launchMargin * RandomSteps <= last.x
               /\ last.x < (last.innerWidth - launchMargin) * RandomSteps
        /\ last.innerWidth < 2 * launchMargin =>
               (0 <= last.x /\ last.x <= last.innerWidth * RandomSteps)

\* the state of each emitter
FireworksFields == {"endTime", "elements"}
ConfettiFields == {"particles", "isAnimating", "canvas"}

\* the operation that led from the current state to s left these fields alone
Same(s, fields) == \A f \in fields : s[f] = Cur[f]

\* C32: the two emitters do not touch each other's state.  Run in any
\* reachable state, Fireworks.start, launch, an explosion and Fireworks.cleanup
\* leave the particle set, isAnimating and the canvas attachment as they are,
\* and Confetti.init, fire, animate and cleanup leave the fireworks end-time
\* and the rockets and sparks as they are; and so did the timer or frame
\* callback of either emitter that ran last.
EmittersIndependent ==
    /\ \A duration \in DurationConfigs, delay \in LaunchDelays :
           Same(FireworksStart(Cur, duration, NewChain(Cur), delay), ConfettiFields)
    /\ Same(launch(Cur, NewChain(Cur)), ConfettiFields)
    /\ \A i \in Pending("explode") : Same(explode(Cur, timers[i]), ConfettiFields)
    /\ Same(FireworksCleanup(Cur), ConfettiFields)
    /\ Same(ConfettiInit(Cur), FireworksFields)
    /\ \A life \in Lifetimes : Same(ConfettiFire(Cur, life), FireworksFields)
    /\ Same(animate(Cur), FireworksFields)
    /\ Same(ConfettiCleanup(Cur), FireworksFields)
    /\ last.op \in {"launchNext", "explode", "removeRocket", "removeSparks"} =>
           last.touched \cap ConfettiFields = {}
    /\ last.op \in {"fireBurst", "frame"} => last.touched \cap FireworksFields = {}

\* an explosion put its sparks on the display while confetti particles were
\* alive on the attached canvas
ExplodedAmidConfetti ==
    /\ last.op = "explode" /\ "elements" \in last.touched
    /\ particles # <<>> /\ isAnimating /\ canvas
    /\ endTime # 0

====
